---------------------------- MODULE Spec2Model ----------------------------
(***************************************************************************)
(* Financial Document Q&A Assistant (src/app.py).                          *)
(*                                                                         *)
(* Strings are modelled as sequences of one-character strings, so that     *)
(* lower(), the regular expressions of extract_financial_metrics, the      *)
(* replace(',', ''), float() and the slice context[:2000] are computed     *)
(* character by character as the Python code computes them.                *)
(***************************************************************************)
EXTENDS Integers, Sequences, FiniteSets, TLC

VARIABLES
    uploaded_file,  \* value of the st.file_uploader widget: a file or None
    document_data,  \* st.session_state.document_data
    chat_history,   \* st.session_state.chat_history
    payload,        \* payload of the requests.post of the latest run, if any
    response,       \* what that requests.post returned or raised
    shown,          \* st.error / st.success messages of the latest run's sidebar
    processor,      \* a DocumentProcessor that a caller keeps and calls directly
    calls,          \* the process_document calls made on it: <<file, file_type>>
    text,           \* argument of a direct extract_financial_metrics call
    metrics,        \* the mapping that call returned
    pc              \* "call" before that call, "done" after it, "idle" otherwise

sessionVars == <<uploaded_file, document_data, chat_history, payload, response, shown>>

procVars == <<processor, calls>>

extractVars == <<text, metrics, pc>>

vars == <<uploaded_file, document_data, chat_history, payload, response, shown,
          processor, calls, text, metrics, pc>>

---------------------------------------------------------------------------
(* Characters and character classes                                        *)

Digits == {"0", "1", "2", "3", "4", "5", "6", "7", "8", "9"}

\* \s of Python's re for str patterns (ASCII part)
Whitespace == {" ", "\t", "\n", "\r", "\f"}

\* [\s:$]
SepChars == Whitespace \cup {":", "$"}

\* [0-9,]
NumChars == Digits \cup {","}

UpperCase == <<"A", "B", "C", "D", "E", "F", "G", "H", "I", "J", "K", "L", "M", "N", "O", "P", "Q", "R", "S", "T", "U", "V", "W", "X", "Y", "Z">>

LowerCase == <<"a", "b", "c", "d", "e", "f", "g", "h", "i", "j", "k", "l", "m", "n", "o", "p", "q", "r", "s", "t", "u", "v", "w", "x", "y", "z">>

UpperSet == {UpperCase[i] : i \in 1..26}

\* str.lower() on one character
lower_char(c) ==
    IF c \in UpperSet
    THEN LowerCase[CHOOSE i \in 1..26 : UpperCase[i] = c]
    ELSE c

\* text.lower()
lower(s) == [i \in 1..Len(s) |-> lower_char(s[i])]

EmptyDict == [k \in {} |-> 0]

Min(S) == CHOOSE x \in S : \A y \in S : x <= y

---------------------------------------------------------------------------
(* The patterns table of extract_financial_metrics: for each metric the    *)
(* alternatives of its (?:...) group, in the order written.  The tail      *)
(* [\s:$]*([0-9,]+(?:\.[0-9]+)?) is the same for every metric and is       *)
(* modelled by SepEnd and CaptureEnd.                                      *)

MetricNames == {"revenue", "expenses", "profit", "assets", "liabilities", "equity"}

patterns ==
    [revenue     |-> << <<"r", "e", "v", "e", "n", "u", "e">>, <<"s", "a", "l", "e", "s">>, <<"i", "n", "c", "o", "m", "e">> >>,
     expenses    |-> << <<"e", "x", "p", "e", "n", "s", "e", "s">>, <<"c", "o", "s", "t", "s">> >>,
     profit      |-> << <<"p", "r", "o", "f", "i", "t">>, <<"n", "e", "t", " ", "i", "n", "c", "o", "m", "e">>, <<"e", "a", "r", "n", "i", "n", "g", "s">> >>,
     assets      |-> << <<"t", "o", "t", "a", "l", " ", "a", "s", "s", "e", "t", "s">>, <<"a", "s", "s", "e", "t", "s">> >>,
     liabilities |-> << <<"t", "o", "t", "a", "l", " ", "l", "i", "a", "b", "i", "l", "i", "t", "i", "e", "s">>, <<"l", "i", "a", "b", "i", "l", "i", "t", "i", "e", "s">> >>,
     equity      |-> << <<"e", "q", "u", "i", "t", "y">>, <<"s", "h", "a", "r", "e", "h", "o", "l", "d", "e", "r", "s", " ", "e", "q", "u", "i", "t", "y">> >>]

\* the literal `label` stands in t at position p
HasLabelAt(t, p, label) ==
    /\ p + Len(label) - 1 <= Len(t)
    /\ \A i \in 1..Len(label) : t[p + i - 1] = label[i]

\* [^0-9,] : a tail that lets any words stand between label and figure
IsSepLoose(c) == c \notin NumChars

\* membership in [\s:$]
IsSep(c) == c \in SepChars

\* greedy [\s:$]* from position p: the first position it does not consume
SepEnd(t, p) ==
    CHOOSE e \in p..(Len(t) + 1) :
        /\ \A i \in p..(e - 1) : IsSep(t[i])
        /\ (e = Len(t) + 1 \/ ~IsSep(t[e]))

\* greedy run of characters of class C from position p: first position after it
RunEnd(t, p, C) ==
    CHOOSE e \in p..(Len(t) + 1) :
        /\ \A i \in p..(e - 1) : t[i] \in C
        /\ (e = Len(t) + 1 \/ t[e] \notin C)

\* ([0-9,]+(?:\.[0-9]+)?) from position s, where t[s] is in [0-9,]:
\* the first position after the captured group
CaptureEnd(t, s) ==
    LET e1 == RunEnd(t, s, NumChars)
    IN  IF e1 + 1 <= Len(t) /\ t[e1] = "." /\ t[e1 + 1] \in Digits
        THEN RunEnd(t, e1 + 1, Digits)
        ELSE e1

\* the alternative `label` followed by the tail matches at position p
AltMatchesAt(t, p, label) ==
    /\ HasLabelAt(t, p, label)
    /\ LET s == SepEnd(t, p + Len(label))
       IN  s <= Len(t) /\ t[s] \in NumChars

\* the metric's pattern matches starting exactly at position p
MatchesAt(m, t, p) ==
    \E k \in 1..Len(patterns[m]) : AltMatchesAt(t, p, patterns[m][k])

\* start of the captured group of the match at p (first alternative that matches)
CaptureStart(m, t, p) ==
    LET k == Min({j \in 1..Len(patterns[m]) : AltMatchesAt(t, p, patterns[m][j])})
    IN  SepEnd(t, p + Len(patterns[m][k]))

\* re.findall(pattern, t) scanning from position pos: the captured groups of
\* the non-overlapping matches, left to right
RECURSIVE findall_from(_, _, _)
findall_from(m, t, pos) ==
    LET starts == {p \in pos..Len(t) : MatchesAt(m, t, p)}
    IN  IF starts = {} THEN << >>
        ELSE LET p == Min(starts)
                 s == CaptureStart(m, t, p)
                 e == CaptureEnd(t, s)
             IN  <<SubSeq(t, s, e - 1)>> \o findall_from(m, t, e)

findall(m, t) == findall_from(m, t, 1)

---------------------------------------------------------------------------
(* Cleaning and parsing of the captured token                              *)

\* matches[-1]
last_match(matches) == matches[Len(matches)]

\* matches[0]
first_match(matches) == matches[1]

\* s.replace(',', '', 1)
remove_first_comma(s) ==
    LET cs == {i \in 1..Len(s) : s[i] = ","}
    IN  IF cs = {} THEN s
        ELSE SubSeq(s, 1, Min(cs) - 1) \o SubSeq(s, Min(cs) + 1, Len(s))

\* s.replace(',', '')
remove_commas(s) == SelectSeq(s, LAMBDA c : c # ",")

\* float(v) succeeds, for v over digits and "." : digits with at most one
\* point and at least one digit
IsFloatLiteral(v) ==
    /\ \A i \in 1..Len(v) : v[i] \in Digits \cup {"."}
    /\ Cardinality({i \in 1..Len(v) : v[i] = "."}) <= 1
    /\ \E i \in 1..Len(v) : v[i] \in Digits

RECURSIVE StripLeadingZeros(_)
StripLeadingZeros(d) ==
    IF d # << >> /\ Head(d) = "0" THEN StripLeadingZeros(Tail(d)) ELSE d

RECURSIVE StripTrailingZeros(_)
StripTrailingZeros(d) ==
    IF d # << >> /\ d[Len(d)] = "0"
    THEN StripTrailingZeros(SubSeq(d, 1, Len(d) - 1))
    ELSE d

\* a Python float, as its exact decimal expansion: the digits of the integer
\* part without leading zeros and of the fraction without trailing zeros
FloatVal(int, frac) ==
    [type |-> "float", int |-> StripLeadingZeros(int),
     frac |-> StripTrailingZeros(frac), str |-> << >>]

\* a Python str stored as a metric value
StrVal(s) == [type |-> "str", int |-> << >>, frac |-> << >>, str |-> s]

\* float(v) for a literal v
float(v) ==
    LET dots == {i \in 1..Len(v) : v[i] = "."}
        d    == IF dots = {} THEN Len(v) + 1 ELSE Min(dots)
    IN  FloatVal(SubSeq(v, 1, d - 1), SubSeq(v, d + 1, Len(v)))

\* except ValueError: metrics[metric] = 0.0
parse_or_zero(value) ==
    IF IsFloatLiteral(value) THEN float(value) ELSE FloatVal(<< >>, << >>)

\* try: metrics[metric] = float(value) / except ValueError: metrics[metric] = value
parse_or_keep(value) ==
    IF IsFloatLiteral(value) THEN float(value) ELSE StrVal(value)

\* every declared metric stored, 0.0 where the pattern found nothing
extract_with_defaults(txt) ==
    LET t == lower(txt)
    IN  [m \in MetricNames |->
            IF findall(m, t) = << >> THEN FloatVal(<< >>, << >>)
            ELSE parse_or_keep(remove_commas(first_match(findall(m, t))))]

\* DocumentProcessor.extract_financial_metrics
extract_financial_metrics(txt) ==
    LET t == lower(txt)
        matched == {m \in MetricNames : findall(m, t) # << >>}
    IN  [m \in matched |->
            parse_or_keep(remove_commas(first_match(findall(m, t))))]

---------------------------------------------------------------------------
(* Documents.  A file is named by its file name; what PyPDF2 and pandas    *)
(* find in it is given by the tables below.                                *)

\* st.session_state.document_data = None
None == [none |-> TRUE]

\* the uploader holds no file (uploaded_file is None)
NoFile == "None"

Put(d, k, v) == [x \in DOMAIN d \cup {k} |-> IF x = k THEN v ELSE d[x]]

Filler == [i \in 1..1990 |-> "x"]

Files == {"annual.pdf", "broken.pdf", "book.xlsx"}

\* uploaded_file.name
FileName(f) ==
    CASE f = "annual.pdf" -> <<"a", "n", "n", "u", "a", "l", ".", "p", "d", "f">>
      [] f = "broken.pdf" -> <<"b", "r", "o", "k", "e", "n", ".", "p", "d", "f">>
      [] f = "book.xlsx"  -> <<"b", "o", "o", "k", ".", "x", "l", "s", "x">>

\* what the bytes of the file are: a PDF, a workbook, or neither
Content(f) ==
    CASE f = "annual.pdf" -> "pdf"
      [] f = "book.xlsx"  -> "workbook"
      [] OTHER            -> "corrupt"

\* page.extract_text() of each page of a readable PDF (a page without a
\* text layer gives the empty string)
Pages(f) ==
    CASE f = "annual.pdf" -> << <<"T", "o", "t", "a", "l", " ", "R", "e", "v", "e", "n", "u", "e", ":", " ", "$", "1", ",", "2", "3", "4", ",", "5", "6", "7", ".", "8", "9">>, << >>, Filler,
                                <<"N", "e", "t", " ", "i", "n", "c", "o", "m", "e", ":", " ", "4", "5", ",", "0", "0", "0">> >>
      [] OTHER            -> << >>

\* the sheets of a readable workbook, in workbook order: name and rows
Sheets(f) ==
    CASE f = "book.xlsx" ->
            << [sheet_name |-> "A", dataframe |-> << <<"E", "x", "p", "e", "n", "s", "e", "s", " ", " ", "2", ",", "5", "0", "0">> >>],
               [sheet_name |-> "B", dataframe |-> << <<"I", "t", "e", "m", " ", " ", "V", "a", "l", "u", "e">>, <<"E", "q", "u", "i", "t", "y", " ", " ", "$", "7">> >>] >>
      [] OTHER -> << >>

\* str.endswith
EndsWith(s, suffix) ==
    /\ Len(suffix) <= Len(s)
    /\ SubSeq(s, Len(s) - Len(suffix) + 1, Len(s)) = suffix

\* "pdf" if uploaded_file.name.endswith('.pdf') else "excel"
FileTypeOf(f) == IF EndsWith(FileName(f), <<".", "p", "d", "f">>) THEN "pdf" ELSE "excel"

\* PyPDF2.PdfReader(pdf_file) raises
PdfReaderFails(f) == Content(f) # "pdf"

\* pd.read_excel(excel_file, sheet_name=None) raises
ReadExcelFails(f) == Content(f) # "workbook"

\* text = ""; for part in parts: text += part + "\n"
RECURSIVE ConcatLines(_)
ConcatLines(parts) ==
    IF parts = << >> THEN << >>
    ELSE Head(parts) \o <<"\n">> \o ConcatLines(Tail(parts))

\* DocumentProcessor.extract_pdf_text: "" when the reader raises
extract_pdf_text(f) ==
    IF PdfReaderFails(f) THEN << >> ELSE ConcatLines(Pages(f))

\* df.to_string(): the rows of the frame, one per line
RECURSIVE to_string(_)
to_string(df) ==
    IF df = << >> THEN << >>
    ELSE IF Len(df) = 1 THEN Head(df)
    ELSE Head(df) \o <<"\n">> \o to_string(Tail(df))

\* DocumentProcessor.extract_excel_data: the dict sheet name -> {dataframe,
\* text} in sheet order, {} when the reader raises
extract_excel_data(f) ==
    IF ReadExcelFails(f) THEN << >>
    ELSE [i \in 1..Len(Sheets(f)) |->
            [sheet_name |-> Sheets(f)[i].sheet_name,
             dataframe  |-> Sheets(f)[i].dataframe,
             text       |-> to_string(Sheets(f)[i].dataframe)]]

\* the st.error message of the extractor called for file_type, if it raised
read_errors(f, file_type) ==
    IF file_type = "pdf" /\ PdfReaderFails(f) THEN <<"Error reading PDF">>
    ELSE IF file_type = "excel" /\ ReadExcelFails(f) THEN <<"Error reading Excel file">>
    ELSE << >>

\* DocumentProcessor.__init__
DocumentProcessor == [extracted_data |-> EmptyDict, raw_text |-> << >>]

\* the text the branch for file_type of process_document assigns to
\* self.raw_text
RawTextOf(f, file_type) ==
    IF file_type = "pdf" THEN extract_pdf_text(f)
    ELSE LET excel_data == extract_excel_data(f)
         IN  ConcatLines([i \in 1..Len(excel_data) |-> excel_data[i].text])

\* for each file, processed as the type its name gives, the raw text and
\* the result of extract_financial_metrics on it, computed once
Extraction ==
    {[file |-> f, file_type |-> FileTypeOf(f),
      raw_text |-> RawTextOf(f, FileTypeOf(f)),
      metrics |-> extract_financial_metrics(RawTextOf(f, FileTypeOf(f)))] :
        f \in Files}

ExtractionOf(f, file_type) ==
    CHOOSE e \in Extraction : e.file = f /\ e.file_type = file_type

\* DocumentProcessor.process_document for file_type "pdf" or "excel": the
\* processor after the call; the value returned is its extracted_data (the
\* same dict object)
process_document(self, f, file_type) ==
    LET d0 == IF file_type = "excel"
              THEN Put(self.extracted_data, "excel_sheets", extract_excel_data(f))
              ELSE self.extracted_data
        e  == ExtractionOf(f, file_type)
    IN  [extracted_data |->
            Put(Put(d0, "metrics", e.metrics), "raw_text", e.raw_text),
         raw_text |-> e.raw_text]

---------------------------------------------------------------------------
(* OllamaClient.generate_response                                          *)

ContextLimit == 2000

PromptHead == <<"\n", " ", " ", " ", " ", " ", " ", " ", " ", " ", " ", " ", " ", "C", "o", "n", "t", "e", "x", "t", " ", "f", "r", "o", "m", " ", "f", "i", "n", "a", "n", "c", "i", "a", "l", " ", "d", "o", "c", "u", "m", "e", "n", "t", ":", "\n", " ", " ", " ", " ", " ", " ", " ", " ", " ", " ", " ", " ">>

PromptMid == <<" ", " ", "#", " ", "L", "i", "m", "i", "t", " ", "c", "o", "n", "t", "e", "x", "t", " ", "t", "o", " ", "a", "v", "o", "i", "d", " ", "t", "o", "k", "e", "n", " ", "l", "i", "m", "i", "t", "s", "\n", " ", " ", " ", " ", " ", " ", " ", " ", " ", " ", " ", " ", "\n", " ", " ", " ", " ", " ", " ", " ", " ", " ", " ", " ", " ", "U", "s", "e", "r", " ", "Q", "u", "e", "s", "t", "i", "o", "n", ":", " ">>

PromptTail == <<"\n", " ", " ", " ", " ", " ", " ", " ", " ", " ", " ", " ", " ", "\n", " ", " ", " ", " ", " ", " ", " ", " ", " ", " ", " ", " ", "P", "l", "e", "a", "s", "e", " ", "a", "n", "s", "w", "e", "r", " ", "t", "h", "e", " ", "q", "u", "e", "s", "t", "i", "o", "n", " ", "b", "a", "s", "e", "d", " ", "o", "n", " ", "t", "h", "e", " ", "f", "i", "n", "a", "n", "c", "i", "a", "l", " ", "d", "o", "c", "u", "m", "e", "n", "t", " ", "c", "o", "n", "t", "e", "x", "t", " ", "p", "r", "o", "v", "i", "d", "e", "d", " ", "a", "b", "o", "v", "e", ".", " ", "\n", " ", " ", " ", " ", " ", " ", " ", " ", " ", " ", " ", " ", "B", "e", " ", "s", "p", "e", "c", "i", "f", "i", "c", " ", "a", "n", "d", " ", "u", "s", "e", " ", "n", "u", "m", "b", "e", "r", "s", " ", "w", "h", "e", "n", " ", "a", "v", "a", "i", "l", "a", "b", "l", "e", ".", " ", "I", "f", " ", "y", "o", "u", " ", "c", "a", "n", "n", "o", "t", " ", "f", "i", "n", "d", " ", "t", "h", "e", " ", "i", "n", "f", "o", "r", "m", "a", "t", "i", "o", "n", ",", " ", "\n", " ", " ", " ", " ", " ", " ", " ", " ", " ", " ", " ", " ", "s", "a", "y", " ", "s", "o", " ", "c", "l", "e", "a", "r", "l", "y", ".", "\n", " ", " ", " ", " ", " ", " ", " ", " ", " ", " ", " ", " ">>

\* context[:] : the whole context
no_truncate(context) == context

\* context[:2000]
truncate(context) ==
    IF Len(context) <= ContextLimit THEN context ELSE SubSeq(context, 1, ContextLimit)

\* the f-string full_prompt
full_prompt(prompt, context) ==
    PromptHead \o truncate(context) \o PromptMid \o prompt \o PromptTail

\* payload = {"model": ..., "prompt": full_prompt, "stream": False}
build_payload(prompt, context) ==
    [model |-> "gemma:2b", prompt |-> full_prompt(prompt, context), stream |-> FALSE]

NoPayload == [model |-> "", prompt |-> << >>, stream |-> FALSE]

\* what requests.post(..., timeout=30) does: it returns a response with a
\* status code and a JSON body, or raises
Returned(code, body) ==
    [kind |-> "response", status_code |-> code, body |-> body, exc |-> "", msg |-> ""]

Raised(exc, msg) ==
    [kind |-> "exception", status_code |-> 0, body |-> "", exc |-> exc, msg |-> msg]

NoResponse == [kind |-> "none", status_code |-> 0, body |-> "", exc |-> "", msg |-> ""]

PostOutcomes ==
    { Returned(200, "Revenue was 100."),
      Returned(500, ""),
      Raised("ConnectionError", "Connection refused"),
      Raised("ConnectTimeout", "Connection to localhost timed out"),
      Raised("ReadTimeout", "Read timed out. (read timeout=30)") }

\* isinstance(e, requests.exceptions.ConnectionError): ConnectTimeout derives
\* from ConnectionError and Timeout, ReadTimeout from Timeout only
IsConnectionError(exc) == exc \in {"ConnectionError", "ConnectTimeout"}

ServiceUnavailableMsg ==
    <<"Error: Could not connect to Ollama. Please make sure Ollama is running on localhost:11434">>

\* the string generate_response returns for an outcome of requests.post
generate_response(prompt, context, outcome) ==
    IF outcome.kind = "response"
    THEN IF outcome.status_code = 200
         THEN <<outcome.body>>
         ELSE <<"Error: Could not connect to Ollama (Status: ",
                ToString(outcome.status_code), ")">>
    ELSE IF IsConnectionError(outcome.exc)
         THEN ServiceUnavailableMsg
         ELSE <<"Error: ", outcome.msg>>

---------------------------------------------------------------------------
(* main(): one run of the Streamlit script.  Every widget event (a file    *)
(* chosen or removed, a button clicked) runs the whole script once.        *)

MaxTurns == 2

\* what the user may have typed in the text input when clicking Get Answer
TypedQuestions == { << >>, <<"W", "h", "a", "t", " ", "w", "a", "s", " ", "r", "e", "v", "e", "n", "u", "e", "?">> }

quick_questions ==
    << <<"W", "h", "a", "t", " ", "w", "a", "s", " ", "t", "h", "e", " ", "t", "o", "t", "a", "l", " ", "r", "e", "v", "e", "n", "u", "e", "?">>,
       <<"W", "h", "a", "t", " ", "w", "e", "r", "e", " ", "t", "h", "e", " ", "m", "a", "i", "n", " ", "e", "x", "p", "e", "n", "s", "e", "s", "?">>,
       <<"W", "h", "a", "t", " ", "w", "a", "s", " ", "t", "h", "e", " ", "n", "e", "t", " ", "p", "r", "o", "f", "i", "t", "?">>,
       <<"W", "h", "a", "t", " ", "a", "r", "e", " ", "t", "h", "e", " ", "t", "o", "t", "a", "l", " ", "a", "s", "s", "e", "t", "s", "?">>,
       <<"S", "h", "o", "w", " ", "m", "e", " ", "t", "h", "e", " ", "k", "e", "y", " ", "f", "i", "n", "a", "n", "c", "i", "a", "l", " ", "r", "a", "t", "i", "o", "s">> >>

SuccessMsg == "Document processed successfully!"

\* chat_history.insert(0, (question, answer))
prepend_turn(history, question, answer) == <<question, answer>> \o history

\* chat_history.append((question, answer))
append_turn(history, question, answer) == Append(history, <<question, answer>>)

\* the sidebar: with a file in the uploader, a new DocumentProcessor
\* processes it and the bundle is stored in the session
Sidebar(file) ==
    /\ uploaded_file' = file
    /\ IF file = NoFile
       THEN /\ document_data' = document_data
            /\ shown' = << >>
       ELSE /\ document_data' =
                process_document(DocumentProcessor, file, FileTypeOf(file)).extracted_data
            /\ shown' = read_errors(file, FileTypeOf(file)) \o <<SuccessMsg>>

\* the body of `if st.button(...)`: one generate_response call and one append
Ask(question, outcome) ==
    LET context == document_data'.raw_text
    IN  /\ payload' = build_payload(question, context)
        /\ response' = outcome
        /\ chat_history' =
              append_turn(chat_history, question,
                          generate_response(question, context, outcome))

\* a run that sends no request
NoAsk ==
    /\ payload' = NoPayload
    /\ response' = NoResponse
    /\ chat_history' = chat_history

\* the user puts a file into the uploader
ChooseFile ==
    \E f \in Files :
        /\ f # uploaded_file
        /\ Sidebar(f)
        /\ NoAsk
        /\ UNCHANGED <<procVars, extractVars>>

\* the user removes the file from the uploader
RemoveFile ==
    /\ uploaded_file # NoFile
    /\ Sidebar(NoFile)
    /\ NoAsk
    /\ UNCHANGED <<procVars, extractVars>>

\* the user clicks "Get Answer"; nothing is asked when the input is empty
GetAnswer ==
    /\ document_data # None
    /\ Len(chat_history) < MaxTurns
    /\ Sidebar(uploaded_file)
    /\ \E question \in TypedQuestions :
        IF question # << >>
        THEN \E outcome \in PostOutcomes : Ask(question, outcome)
        ELSE NoAsk
    /\ UNCHANGED <<procVars, extractVars>>

\* the user clicks one of the quick question buttons
QuickQuestion ==
    /\ document_data # None
    /\ Len(chat_history) < MaxTurns
    /\ Sidebar(uploaded_file)
    /\ \E i \in 1..Len(quick_questions) : \E outcome \in PostOutcomes :
        Ask(quick_questions[i], outcome)
    /\ UNCHANGED <<procVars, extractVars>>

Init ==
    /\ uploaded_file = NoFile
    /\ document_data = None
    /\ chat_history = << >>
    /\ payload = NoPayload
    /\ response = NoResponse
    /\ shown = << >>
    /\ processor = DocumentProcessor
    /\ calls = << >>
    /\ text = << >>
    /\ metrics = EmptyDict
    /\ pc = "idle"

Next == ChooseFile \/ RemoveFile \/ GetAnswer \/ QuickQuestion

Spec == Init /\ [][Next]_vars

---------------------------------------------------------------------------
(* A caller that keeps one DocumentProcessor and calls process_document    *)
(* on it several times.                                                    *)

MaxCalls == 4

ProcInit ==
    /\ processor = DocumentProcessor
    /\ calls = << >>
    /\ uploaded_file = NoFile
    /\ document_data = None
    /\ chat_history = << >>
    /\ payload = NoPayload
    /\ response = NoResponse
    /\ shown = << >>
    /\ text = << >>
    /\ metrics = EmptyDict
    /\ pc = "idle"

\* processor.process_document(f, file_type), file_type derived from the
\* file name as main derives it
ProcessDocument ==
    \E f \in Files :
        /\ Len(calls) < MaxCalls
        /\ processor' = process_document(processor, f, FileTypeOf(f))
        /\ calls' = Append(calls, <<f, FileTypeOf(f)>>)
        /\ UNCHANGED <<sessionVars, extractVars>>

ProcNext == ProcessDocument

ProcSpec == ProcInit /\ [][ProcNext]_vars

---------------------------------------------------------------------------
(* Inputs of the direct calls of extract_financial_metrics                 *)

MaxChunks == 4

Chunks ==
    { <<"R", "e", "v", "e", "n", "u", "e">>, <<"N", "e", "t", " ", "I", "n", "c", "o", "m", "e", ":", " ", "$">>, <<"1">>, <<",">>, <<",", "2", "3", "4">>, <<".", "5">>, <<" ">>, <<"a">> }

RECURSIVE Flatten(_)
Flatten(cs) == IF cs = << >> THEN << >> ELSE Head(cs) \o Flatten(Tail(cs))

ChunkTexts ==
    {Flatten(cs) : cs \in UNION {[1..n -> Chunks] : n \in 0..MaxChunks}}

ScenarioText == <<"N", "e", "t", " ", "i", "n", "c", "o", "m", "e", " ", "w", "a", "s", " ", "$", "4", "5", ",", "0", "0", "0", " ", "a", "n", "d", " ", "t", "o", "t", "a", "l", " ", "a", "s", "s", "e", "t", "s", " ", "o", "f", " ", "2", ",", "0", "0", "0", ",", "0", "0", "0">>

ScenarioTexts ==
    { ScenarioText,
      <<"T", "o", "t", "a", "l", " ", "R", "e", "v", "e", "n", "u", "e", ":", " ", "$", "1", ",", "2", "3", "4", ",", "5", "6", "7", ".", "8", "9">>,
      <<"r", "e", "v", "e", "n", "u", "e", ":", " ", "1", "0", "0", " ", ".", ".", ".", " ", "r", "e", "v", "e", "n", "u", "e", ":", " ", "2", "0", "0">>,
      <<"C", "o", "s", "t", "s", ":", " ", "1", "2", ",", "3", "4", "a">>,
      <<"T", "o", "t", "a", "l", " ", "A", "s", "s", "e", "t", "s", " ", "2", ",", "0", "0", "0", ",", "0", "0", "0", "\n", "T", "o", "t", "a", "l", " ", "L", "i", "a", "b", "i", "l", "i", "t", "i", "e", "s", ":", " ", "5", " ", "l", "i", "a", "b", "i", "l", "i", "t", "i", "e", "s", " ", "6">>,
      <<"S", "h", "a", "r", "e", "h", "o", "l", "d", "e", "r", "s", " ", "E", "q", "u", "i", "t", "y", " ", "$", "7", " ", "e", "a", "r", "n", "i", "n", "g", "s", " ", ",">>,
      <<"S", "A", "L", "E", "S", "\\", "t", "$", " ", "0", "1", "0", ".", "5", "0", " ", "e", "x", "p", "e", "n", "s", "e", "s", ":", ":", " ", "3", ".">> }

Texts == ChunkTexts \cup ScenarioTexts

---------------------------------------------------------------------------
ExtractInit ==
    /\ text \in Texts
    /\ metrics = EmptyDict
    /\ pc = "call"
    /\ uploaded_file = NoFile
    /\ document_data = None
    /\ chat_history = << >>
    /\ payload = NoPayload
    /\ response = NoResponse
    /\ shown = << >>
    /\ processor = DocumentProcessor
    /\ calls = << >>

\* metrics = DocumentProcessor().extract_financial_metrics(text)
ExtractCall ==
    /\ pc = "call"
    /\ metrics' = extract_financial_metrics(text)
    /\ pc' = "done"
    /\ UNCHANGED <<text, sessionVars, procVars>>

ExtractNext == ExtractCall

ExtractSpec == ExtractInit /\ [][ExtractNext]_vars

---------------------------------------------------------------------------
(* Properties of the session (Spec) and of a kept DocumentProcessor        *)
(* (ProcSpec)                                                              *)

\* the extractor main calls for the file raises
ReadFails(f) ==
    IF FileTypeOf(f) = "pdf" THEN PdfReaderFails(f) ELSE ReadExcelFails(f)

RECURSIVE TotalLen(_)
TotalLen(parts) ==
    IF parts = << >> THEN 0 ELSE Len(Head(parts)) + TotalLen(Tail(parts))

\* the text units of a readable file: the pages of a PDF, the renderings of
\* the sheets of a workbook
Parts(f) ==
    IF FileTypeOf(f) = "pdf" THEN Pages(f)
    ELSE [i \in 1..Len(Sheets(f)) |-> to_string(Sheets(f)[i].dataframe)]

\* C2 (as claimed): when reading the uploaded document fails, no bundle
\* reaches the caller: the stored document data is not set from that upload
\* and the upload is not reported as processed.
C2_ReadFailureYieldsNoBundle ==
    [][(uploaded_file' \in Files /\ ReadFails(uploaded_file')) =>
          /\ document_data' = document_data
          /\ \A i \in 1..Len(shown') : shown'[i] # SuccessMsg]_vars

\* C7 (as claimed): a refused connection and every timeout (connect or
\* read) of the inference request give the ServiceUnavailable answer.
C7_RefusalAndTimeoutsUnavailable ==
    (response.kind = "exception" /\
     response.exc \in {"ConnectionError", "ConnectTimeout", "ReadTimeout"}) =>
        chat_history[Len(chat_history)][2] = ServiceUnavailableMsg

\* C8 (as claimed): after any sequence of process_document calls on one
\* DocumentProcessor the bundle comes from the latest document only: its
\* raw_text and metrics, and excel_sheets only when that document is a
\* spreadsheet.
C8_BundleFromLatestDocumentOnly ==
    calls # << >> =>
        LET f  == calls[Len(calls)][1]
            ft == calls[Len(calls)][2]
            d  == processor.extracted_data
        IN  /\ d.raw_text = RawTextOf(f, ft)
            /\ d.metrics = extract_financial_metrics(RawTextOf(f, ft))
            /\ ("excel_sheets" \in DOMAIN d) <=> (ft = "excel")
            /\ ft = "excel" => d.excel_sheets = extract_excel_data(f)

\* C9: the chat history changes only by one turn appended at its end, in
\* exactly the runs that ask a question; earlier turns keep their place and
\* content, and a failed inference call leaves the stored document data and
\* the earlier turns as they were.
C9_ChatHistoryAppendOnly ==
    [][/\ \/ /\ payload' = NoPayload
             /\ chat_history' = chat_history
          \/ /\ payload' # NoPayload
             /\ Len(chat_history') = Len(chat_history) + 1
             /\ SubSeq(chat_history', 1, Len(chat_history)) = chat_history
             /\ chat_history'[Len(chat_history')][2] # << >>
       /\ (response'.kind = "exception" \/
           (response'.kind = "response" /\ response'.status_code # 200)) =>
              /\ document_data' = document_data
              /\ SubSeq(chat_history', 1, Len(chat_history)) = chat_history]_vars

C9_FailedCallAfterEarlierTurn ==
    /\ Len(chat_history) >= 2
    /\ response.kind = "exception"
    /\ chat_history[1] # chat_history[2]

\* C10: the prompt sent holds, in the context slot, the first 2000
\* characters of the context (all of it when it is shorter) and nothing
\* beyond, and the whole question in the question slot; the raw_text stored
\* for a readable document is the whole text of its pages or sheets.
C10_PromptHoldsContextPrefix ==
    /\ payload # NoPayload =>
        LET q   == chat_history[Len(chat_history)][1]
            ctx == document_data.raw_text
            p   == payload.prompt
            n   == Len(p) - Len(PromptHead) - Len(PromptMid) - Len(q) - Len(PromptTail)
            c0  == Len(PromptHead)
            q0  == c0 + n + Len(PromptMid)
        IN  /\ 0 <= n /\ n <= ContextLimit /\ n <= Len(ctx)
            /\ n = Len(ctx) \/ n = ContextLimit
            /\ SubSeq(p, 1, c0) = PromptHead
            /\ SubSeq(p, c0 + 1, c0 + n) = SubSeq(ctx, 1, n)
            /\ SubSeq(p, c0 + n + 1, q0) = PromptMid
            /\ SubSeq(p, q0 + 1, q0 + Len(q)) = q
            /\ SubSeq(p, q0 + Len(q) + 1, Len(p)) = PromptTail
    /\ (uploaded_file \in Files /\ ~ReadFails(uploaded_file)) =>
        LET parts == Parts(uploaded_file)
            raw   == document_data.raw_text
        IN  /\ Len(raw) = TotalLen(parts) + Len(parts)
            /\ EndsWith(raw, parts[Len(parts)] \o <<"\n">>)
            /\ SubSeq(raw, 1, Len(parts[1])) = parts[1]

C10_LongContextSent ==
    /\ payload # NoPayload
    /\ Len(document_data.raw_text) > ContextLimit
    /\ uploaded_file \in Files

---------------------------------------------------------------------------
(* Properties of extract_financial_metrics, checked under ExtractSpec      *)

\* positions of the lower-cased text at which the metric's pattern matches
MatchStarts(m) ==
    LET t == lower(text)
    IN  {p \in 1..Len(t) : MatchesAt(m, t, p)}

\* the token captured by the match that starts at p
CapturedAt(m, p) ==
    LET t == lower(text)
        s == CaptureStart(m, t, p)
    IN  SubSeq(t, s, CaptureEnd(t, s) - 1)

\* the token without its commas, written without the code's replace
RECURSIVE CommaFree(_)
CommaFree(tok) ==
    IF tok = << >> THEN << >>
    ELSE IF Head(tok) = "," THEN CommaFree(Tail(tok))
    ELSE <<Head(tok)>> \o CommaFree(Tail(tok))

\* integer part and fraction of a captured token
IntPart(tok) ==
    LET dots == {i \in 1..Len(tok) : tok[i] = "."}
    IN  IF dots = {} THEN tok ELSE SubSeq(tok, 1, Min(dots) - 1)

FracPart(tok) ==
    LET dots == {i \in 1..Len(tok) : tok[i] = "."}
    IN  IF dots = {} THEN << >> ELSE SubSeq(tok, Min(dots) + 1, Len(tok))

\* a well-formed number: one to three digits, then groups of a comma and
\* exactly three digits (or digits without any comma), and an optional
\* decimal part
WellFormed(tok) ==
    LET ip == IntPart(tok)
        commas == {i \in 1..Len(ip) : ip[i] = ","}
    IN  /\ ip # << >>
        /\ ip[1] \in Digits
        /\ \/ commas = {}
           \/ /\ Min(commas) <= 4
              /\ \A i \in commas : (Len(ip) - i + 1) % 4 = 0
              /\ \A i \in 1..Len(ip) :
                    (i > Min(commas) /\ (Len(ip) - i + 1) % 4 = 0) => i \in commas

\* the number a well-formed token denotes
NumberOf(tok) == FloatVal(CommaFree(IntPart(tok)), FracPart(tok))

\* the value the code is to store for the match that starts at p
ValueAt(m, p) ==
    LET v == CommaFree(CapturedAt(m, p))
    IN  IF IsFloatLiteral(v) THEN float(v) ELSE StrVal(v)

\* C1 (as claimed): the scenario text "Net income was $45,000 and total
\* assets of 2,000,000" yields exactly {profit: 45000.0, assets: 2000000.0}.
C1_ScenarioYieldsProfitAndAssets ==
    (pc = "done" /\ text = ScenarioText) =>
        metrics = [profit |-> FloatVal(<<"4", "5", "0", "0", "0">>, << >>),
                   assets |-> FloatVal(<<"2", "0", "0", "0", "0", "0", "0">>, << >>)]

\* C1 (amended): for the scenario text the returned mapping is empty: the
\* words "was" and "of" stand between each label and its figure, so no
\* pattern matches and none of the six keys is present.
C1_ScenarioYieldsNothing ==
    (pc = "done" /\ text = ScenarioText) => DOMAIN metrics = {}

C1_ScenarioExtracted == pc = "done" /\ text = ScenarioText

C4_FirstMatchWins ==
    pc = "done" =>
        \A m \in MetricNames :
            LET starts == MatchStarts(m)
                first == ValueAt(m, Min(starts))
            IN  starts # {} =>
                    /\ m \in DOMAIN metrics
                    /\ metrics[m] = first
                    /\ \A q \in starts :
                           ValueAt(m, q) # first => metrics[m] # ValueAt(m, q)

C4_TwoDifferentFigures ==
    /\ pc = "done"
    /\ \E m \in DOMAIN metrics : \E p, q \in MatchStarts(m) :
        /\ p < q
        /\ ValueAt(m, p) # ValueAt(m, q)
        /\ ValueAt(m, p).type = "float" /\ ValueAt(m, q).type = "float"

\* C5: the keys of the result are among the six declared metric names, and a
\* metric whose label followed by a capturable number occurs nowhere in the
\* text is absent (not present with zero, null or an empty value).
C5_KeysDeclaredAndUnmatchedAbsent ==
    pc = "done" =>
        /\ DOMAIN metrics \subseteq MetricNames
        /\ \A m \in MetricNames : MatchStarts(m) = {} => m \notin DOMAIN metrics

C5_SomeMatchedSomeNot ==
    /\ pc = "done"
    /\ DOMAIN metrics # {}
    /\ \E m \in MetricNames : MatchStarts(m) = {} /\ m \notin DOMAIN metrics

\* C6 (as claimed): wherever the text holds a metric synonym followed by a
\* well-formed number, the value stored for the metric is that number.
C6_EveryWellFormedOccurrenceExtracted ==
    pc = "done" =>
        \A m \in MetricNames : \A p \in MatchStarts(m) :
            LET tok == CapturedAt(m, p)
            IN  WellFormed(tok) =>
                    m \in DOMAIN metrics /\ metrics[m] = NumberOf(tok)

\* C6 (amended): when the leftmost match of a metric's pattern captures a
\* well-formed number (thousands separators, optional decimal part), the
\* value stored for the metric is that number with the separators removed.
C6_LeftmostWellFormedExtracted ==
    pc = "done" =>
        \A m \in MetricNames :
            LET starts == MatchStarts(m)
                tok == CapturedAt(m, Min(starts))
            IN  (starts # {} /\ WellFormed(tok)) =>
                    m \in DOMAIN metrics /\ metrics[m] = NumberOf(tok)

C6_SeparatedDecimalExtracted ==
    /\ pc = "done"
    /\ \E m \in DOMAIN metrics :
        LET tok == CapturedAt(m, Min(MatchStarts(m)))
        IN  /\ WellFormed(tok)
            /\ \E i \in 1..Len(tok) : tok[i] = ","
            /\ FracPart(tok) # << >>

=============================================================================
